---- MODULE Spec2Model ----
(***************************************************************************)
(* Model of the Morse decoder pipeline of cw-decode.go:                    *)
(*                                                                         *)
(*   chunks -> amplituder -> amplitudes -> quantizer -> quants             *)
(*          -> getRlePipe goroutine -> lengths                             *)
(*          -> getTokenPipe goroutine -> tokens -> main's range loop       *)
(*                                                                         *)
(* Every channel is unbuffered (make(chan T)), so a send and the matching  *)
(* receive are one step: a handoff between a goroutine waiting at its send *)
(* and a goroutine waiting at its receive.  A Go panic ends the process:   *)
(* once panic # "none" no goroutine takes another step.                    *)
(*                                                                         *)
(* WindowSize and GroupSize stand for the literals 100 and 20 of the       *)
(* source, and IntBits for the 32 bits of int32; they are scaled down so   *)
(* that every input up to the bounds can be enumerated.                    *)
(***************************************************************************)
EXTENDS Integers, Sequences, FiniteSets, TLC

\* ---------------------------------------------------------------- bounds
\* quantizer window: "var group [100]int32", "if seen == 100" (scaled)
WindowSize == 2
\* token window: "make([]int32, 20)", "if seen == 20" (scaled; like 20 it
\* is even: as many tone positions as silence positions)
HalfGroup == 2
GroupSize == 2 * HalfGroup
\* chunks the source of the whole pipeline hands over before it closes
MaxChunks == 6
\* amplitudes fed to the quantizer stage when it is driven alone
MaxAmps == 4
\* booleans fed to getRlePipe when it is driven directly
MaxQuants == 10
\* durations fed to getTokenPipe when it is driven directly
MaxDurations == 8
\* booleans of the repeated pattern fed to getRlePipe
MaxPattern == 40
\* chunks the source hands over while main does not receive
MaxStallChunks == 9

\* chunks the reading goroutine hands over from its one slice
MaxShareChunks == 3

\* factors by which a group is scaled when the unit is compared
MaxScale == 3

\* chunks fed to amplituder when it is driven directly, and their length
MaxRmsChunks == 1
MaxChunkLen == 3

\* width of the machine integers: int32 in the source, scaled so that the
\* sums and products of the model stay within what can be evaluated
IntBits == 16
\* ratios handed to clamp directly are n / RatioDen for n in 0..MaxRatioNum
RatioDen == 2
MaxRatioNum == 20

\* ------------------------------------------------------------ token type
dit == 0
dah == 1
endLetter == 2
endWord == 3
pause == 4
noOp == 5
cwError == 6

\* ------------------------------------------------- Go integer arithmetic
\* int32 arithmetic wraps around (two's complement); the width is IntBits
MinInt == -(2^(IntBits - 1))
Wrap32(x) == ((x - MinInt) % (2^IntBits)) + MinInt

\* Go's integer division truncates toward zero
GoDiv(a, b) ==
  LET abs(x) == IF x < 0 THEN -x ELSE x
      q == abs(a) \div abs(b)
  IN IF (a < 0) = (b < 0) THEN q ELSE -q

RECURSIVE SqrtSearch(_, _, _)
SqrtSearch(n, lo, hi) ==
  IF lo >= hi THEN lo
  ELSE LET mid == (lo + hi + 1) \div 2
       IN IF mid * mid <= n THEN SqrtSearch(n, mid, hi)
          ELSE SqrtSearch(n, lo, mid - 1)

\* int32(math.Sqrt(float64(n))) for n >= 0: the square root rounded down
FloorSqrt(n) == SqrtSearch(n, 0, (n \div 2) + 1)

RECURSIVE SumSeq(_)
SumSeq(s) == IF s = <<>> THEN 0 ELSE Wrap32(Head(s) + SumSeq(Tail(s)))

RECURSIVE SumSquares(_)
SumSquares(s) ==
  IF s = <<>> THEN 0 ELSE Wrap32(Wrap32(Head(s) * Head(s)) + SumSquares(Tail(s)))

\* rmsRadicand as it would be without "- (mean * mean)"
rmsRadicandNoMean(audiovals) ==
  GoDiv(SumSquares(audiovals), Len(audiovals))

\* The value math.Sqrt's argument is converted from in rms.
rmsRadicand(audiovals) ==
  LET n == Len(audiovals)
      mean == GoDiv(SumSeq(audiovals), n)
      meanOfSquares == GoDiv(SumSquares(audiovals), n)
  IN Wrap32(meanOfSquares - Wrap32(mean * mean))

\* rms of a non-empty chunk.  For a negative radicand math.Sqrt is NaN and
\* the conversion int32(NaN) is implementation-defined in Go: the outcomes
\* the usual targets produce are the least int32 (amd64) and 0 (arm64).
rms(audiovals) ==
  LET r == rmsRadicand(audiovals)
  IN IF r >= 0 THEN {FloorSqrt(r)} ELSE {MinInt, 0}

\* ------------------------------------------------------------- stage 3
RECURSIVE Insert(_, _)
Insert(x, s) ==
  IF s = <<>> THEN <<x>>
  ELSE IF x <= Head(s) THEN <<x>> \o s
  ELSE <<Head(s)>> \o Insert(x, Tail(s))

\* sort.Sort(byInt32(group)): the slice rearranged in ascending order
RECURSIVE sortInt32(_)
sortInt32(s) == IF s = <<>> THEN <<>> ELSE Insert(Head(s), sortInt32(Tail(s)))

\* calculateUnitDuration as it would be without the sort
calculateUnitDurationUnsorted(g) == g[(Len(g) \div 4) + 1]

\* calculateUnitDuration as it would be with group[0] for group[len/4]
calculateUnitDurationSmallest(g) == sortInt32(g)[1]

\* the value calculateUnitDuration returns (it also sorts its argument)
calculateUnitDuration(g) == sortInt32(g)[(Len(g) \div 4) + 1]

\* float32(n) of an integer: a ratio is kept as <<numerator, denominator>>
Float32(n) == <<n, 1>>

\* x > k for a ratio x
Gt(x, k) == x[1] > k * x[2]

\* clamp as it would be with >= for >: the band limits 2, 5 and 8 fall in
\* the upper band
clampLowerInclusive(x, sil) ==
  LET Ge(k) == x[1] >= k * x[2]
  IN IF sil
     THEN IF Ge(8) THEN pause
          ELSE IF Ge(5) THEN endWord
          ELSE IF Ge(2) THEN endLetter
          ELSE noOp
     ELSE IF Ge(8) THEN cwError
          ELSE IF Ge(5) THEN cwError
          ELSE IF Ge(2) THEN dah
          ELSE dit

clamp(x, sil) ==
  IF sil
  THEN IF Gt(x, 8) THEN pause
       ELSE IF Gt(x, 5) THEN endWord
       ELSE IF Gt(x, 2) THEN endLetter
       ELSE noOp
  ELSE IF Gt(x, 8) THEN cwError
       ELSE IF Gt(x, 5) THEN cwError
       ELSE IF Gt(x, 2) THEN dah
       ELSE dit

\* ------------------------------------------------------ inputs of the model
\* sample chunks the source may hand over (rms 0, 3 and 5)
Chunks == {<<0, 0>>, <<-3, 3>>, <<-5, 5>>}
\* amplitudes fed to the quantizer when it is driven directly
Amps == {0, 3, 5}
\* durations fed to getTokenPipe when it is driven directly
Durations == {1, 2, 5, 6}
\* ratios handed to clamp when it is driven directly
Ratios == {<<n, RatioDen>> : n \in 0..MaxRatioNum}
\* the ratios 1,1,3,3,7,1,3,3
ExampleRatios ==
  <<Float32(1), Float32(1), Float32(3), Float32(3),
    Float32(7), Float32(1), Float32(3), Float32(3)>>
ClampInputs ==
  {<<x>> : x \in Ratios} \cup {<<x, y>> : x \in Ratios, y \in Ratios}
    \cup {ExampleRatios}

\* a sample so large that its square does not fit the machine integer
BigSample == 2^(IntBits \div 2)
\* samples of the chunks fed to amplituder when it is driven directly
Samples == {-1, 0, 2, BigSample}
RECURSIVE SeqsOf(_, _)
SeqsOf(S, n) ==
  IF n = 0 THEN {<<>>}
  ELSE {<<x>> \o t : x \in S, t \in SeqsOf(S, n - 1)}
\* the non-empty chunks of up to MaxChunkLen samples
SampleChunks == UNION {SeqsOf(Samples, n) : n \in 1..MaxChunkLen}

\* chunks the source hands over while main does not receive (rms 0 and 5)
StallChunks == {<<0, 0>>, <<-5, 5>>}

Channels == {"chunks", "amplitudes", "quants", "lengths", "tokens"}

\* ------------------------------------------------------------------ state
VARIABLES
  closed,   \* closed[ch]: close(ch) has been executed
  hist,     \* hist[ch]: the values handed over on ch so far, in order
  sendCtx,  \* sendCtx[ch]: for each value sent on lengths or tokens, the
            \* sender's locals at the send (currentState; group[i],
            \* unitDuration, silence)
  panic,    \* "none", or the run-time panic that ended the process
  amp,      \* amplituder: pc, out (the rms it is about to send)
  qz,       \* quantizer: pc, group, seen, max, min, middle, i
  rle,      \* getRlePipe goroutine: pc, currentState, tally, quant
  tok,      \* getTokenPipe goroutine: pc, group, seen, unitDuration, silence, i
  mainPc,   \* main's "for val := range output" loop
  probe,    \* clamp driven directly: in, pos, silence, out
  source,   \* main's reading goroutine: pc, samplechunk (the one slice it
            \* reads into and sends)
  rmsRead   \* rms running on that slice: the samples it has read so far

vars == <<closed, hist, sendCtx, panic, amp, qz, rle, tok, mainPc, probe, source, rmsRead>>

ZeroSeq(n) == [k \in 1..n |-> 0]

InitPipeline ==
  /\ closed = [ch \in Channels |-> FALSE]
  /\ hist = [ch \in Channels |-> <<>>]
  /\ sendCtx = [ch \in {"lengths", "tokens"} |-> <<>>]
  /\ panic = "none"
  /\ amp = [pc |-> "recv", out |-> 0]
  /\ qz = [pc |-> "recv", group |-> ZeroSeq(WindowSize), seen |-> 0,
           max |-> 0, min |-> 0, middle |-> 0, i |-> 0]
  /\ rle = [pc |-> "recv", currentState |-> FALSE, tally |-> 0, quant |-> FALSE]
  /\ tok = [pc |-> "recv", group |-> ZeroSeq(GroupSize), seen |-> 0,
            unitDuration |-> 0, silence |-> FALSE, i |-> 0]
  /\ mainPc = "range"
  /\ source = [pc |-> "read", samplechunk |-> <<0, 0>>]
  /\ rmsRead = <<>>

Init ==
  /\ InitPipeline
  /\ probe = [in |-> <<>>, pos |-> 0, silence |-> FALSE, out |-> <<>>]

\* --------------------------------------------------- the stages' local steps
\* quantizer, loop body on receiving amp: store it, track max and min, and
\* with a full window compute middle and start sending
quantizerRecv(q, a) ==
  LET g == [q.group EXCEPT ![q.seen + 1] = a]
      s == Wrap32(q.seen + 1)
      mx == IF a > q.max THEN a ELSE q.max
      mn == IF a < q.min THEN a ELSE q.min
  IN IF s = WindowSize
     THEN [pc |-> "send", group |-> g, seen |-> s, max |-> mx, min |-> mn,
           middle |-> GoDiv(Wrap32(mx - mn), 2), i |-> 0]
     ELSE [q EXCEPT !.group = g, !.seen = s, !.max = mx, !.min = mn]

\* the boolean the quantizer sends for group[i]
quantizerOut(q) == q.group[q.i + 1] >= q.middle

\* quantizerSent as it would be without "max = 0" and "min = 0"
quantizerSentKeepsExtrema(q) ==
  IF q.i + 1 = WindowSize
  THEN [q EXCEPT !.pc = "recv", !.seen = 0, !.middle = 0, !.i = 0]
  ELSE [q EXCEPT !.i = q.i + 1]

\* quantizer after a send: next i, and after the last one reset max, min, seen
quantizerSent(q) ==
  IF q.i + 1 = WindowSize
  THEN [q EXCEPT !.pc = "recv", !.max = 0, !.min = 0, !.seen = 0,
                 !.middle = 0, !.i = 0]
  ELSE [q EXCEPT !.i = q.i + 1]

\* getRlePipe, loop body on receiving quant
rleRecv(r, b) ==
  IF b = r.currentState
  THEN [r EXCEPT !.tally = Wrap32(r.tally + 1)]
  ELSE [r EXCEPT !.pc = "send", !.quant = b]

\* rleSent as it would be without "currentState = quant"
rleSentStale(r) == [r EXCEPT !.pc = "recv", !.tally = 1]

\* rleSent as it would be with "tally = 0" for "tally = 1"
rleSentTallyZero(r) ==
  [r EXCEPT !.pc = "recv", !.currentState = r.quant, !.tally = 0]

\* getRlePipe after "lengths <- tally"
rleSent(r) == [r EXCEPT !.pc = "recv", !.currentState = r.quant, !.tally = 1]

\* getTokenPipe, loop body on receiving duration: store it, and with a full
\* group reset seen, sort the group in place (calculateUnitDuration works on
\* the slice it is given) and start the classification loop
tokRecv(t, d) ==
  LET g == [t.group EXCEPT ![t.seen + 1] = d]
      s == t.seen + 1
  IN IF s = GroupSize
     THEN [pc |-> "send", group |-> sortInt32(g), seen |-> 0,
           unitDuration |-> calculateUnitDuration(g), silence |-> FALSE, i |-> 0]
     ELSE [t EXCEPT !.group = g, !.seen = s]

\* norm := float32(group[i] / unitDuration): the int32 quotient, converted
tokNorm(t) == Float32(GoDiv(t.group[t.i + 1], t.unitDuration))

\* the token getTokenPipe sends for group[i]
tokOut(t) == clamp(tokNorm(t), t.silence)

\* tokSent as it would be without "silence = !silence"
tokSentNoFlip(t) ==
  IF t.i + 1 = GroupSize
  THEN [t EXCEPT !.pc = "recv", !.unitDuration = 0, !.silence = FALSE, !.i = 0]
  ELSE [t EXCEPT !.i = t.i + 1]

\* getTokenPipe after a send: flip silence, next i; after the last one the
\* locals of the if-block go out of scope
tokSent(t) ==
  IF t.i + 1 = GroupSize
  THEN [t EXCEPT !.pc = "recv", !.unitDuration = 0, !.silence = FALSE, !.i = 0]
  ELSE [t EXCEPT !.silence = ~t.silence, !.i = t.i + 1]

\* --------------------------------------------------------- channel steps
Running == panic = "none"

\* close(ch): closing a closed channel panics
closeChan(ch) ==
  IF closed[ch]
  THEN panic' = "close of closed channel" /\ UNCHANGED closed
  ELSE closed' = [closed EXCEPT ![ch] = TRUE] /\ UNCHANGED panic

\* the value v passes over ch
Log(ch, v) == hist' = [hist EXCEPT ![ch] = Append(@, v)]

\* a send on ch finds the channel closed
SendOnClosed == panic' = "send on closed channel"

\* the receiving side of each channel: the loop body run on the value
\* RecvChunk as it would be if an empty chunk were given the amplitude 0
RecvChunkGuarded(chunk) ==
  /\ \E a \in (IF Len(chunk) = 0 THEN {0} ELSE rms(chunk)) :
       amp' = [pc |-> "send", out |-> a]
  /\ UNCHANGED panic

RecvChunk(chunk) ==
  IF Len(chunk) = 0
  THEN panic' = "integer divide by zero" /\ UNCHANGED amp
  ELSE /\ \E a \in rms(chunk) : amp' = [pc |-> "send", out |-> a]
       /\ UNCHANGED panic

RecvAmplitude(a) ==
  IF qz.seen >= WindowSize
  THEN panic' = "index out of range" /\ UNCHANGED qz
  ELSE qz' = quantizerRecv(qz, a) /\ UNCHANGED panic

RecvQuant(b) == rle' = rleRecv(rle, b)

RecvDuration(d) ==
  IF tok.seen >= GroupSize
  THEN panic' = "index out of range" /\ UNCHANGED tok
  ELSE LET t == tokRecv(tok, d)
       IN IF t.pc = "send" /\ t.unitDuration = 0
          THEN panic' = "integer divide by zero" /\ UNCHANGED tok
          ELSE tok' = t /\ UNCHANGED panic

\* ------------------------------------------------- the pipeline's actions
\* the source hands a chunk to amplituder, which computes its rms
SourceSend ==
  \E chunk \in Chunks :
    /\ Running /\ ~closed["chunks"] /\ Len(hist["chunks"]) < MaxChunks
    /\ amp.pc = "recv"
    /\ Log("chunks", chunk)
    /\ RecvChunk(chunk)
    /\ UNCHANGED <<closed, sendCtx, qz, rle, tok, mainPc, probe, source, rmsRead>>

\* the source ends the stream
SourceClose ==
  /\ Running /\ ~closed["chunks"]
  /\ closeChan("chunks")
  /\ UNCHANGED <<hist, sendCtx, amp, qz, rle, tok, mainPc, probe, source, rmsRead>>

\* amplituder: range over chunks ends, close(amplitudes)
AmplituderExit ==
  /\ Running /\ amp.pc = "recv" /\ closed["chunks"]
  /\ closeChan("amplitudes")
  /\ amp' = IF closed["amplitudes"] THEN amp ELSE [amp EXCEPT !.pc = "done"]
  /\ UNCHANGED <<hist, sendCtx, qz, rle, tok, mainPc, probe, source, rmsRead>>

\* amplitudes <- rms(chunk), received by quantizer
AmpToQuant ==
  /\ Running /\ amp.pc = "send"
  /\ closed["amplitudes"] \/ qz.pc = "recv"
  /\ IF closed["amplitudes"]
     THEN SendOnClosed /\ UNCHANGED <<hist, amp, qz>>
     ELSE /\ Log("amplitudes", amp.out)
          /\ amp' = [amp EXCEPT !.pc = "recv"]
          /\ RecvAmplitude(amp.out)
  /\ UNCHANGED <<closed, sendCtx, rle, tok, mainPc, probe, source, rmsRead>>

\* quantizer: range over amplitudes ends, close(quants)
QuantizerExit ==
  /\ Running /\ qz.pc = "recv" /\ closed["amplitudes"]
  /\ closeChan("quants")
  /\ qz' = IF closed["quants"] THEN qz ELSE [qz EXCEPT !.pc = "done"]
  /\ UNCHANGED <<hist, sendCtx, amp, rle, tok, mainPc, probe, source, rmsRead>>

\* quants <- (group[i] >= middle), received by the getRlePipe goroutine
QuantToRle ==
  /\ Running /\ qz.pc = "send"
  /\ closed["quants"] \/ rle.pc = "recv"
  /\ IF closed["quants"]
     THEN SendOnClosed /\ UNCHANGED <<hist, qz, rle>>
     ELSE /\ Log("quants", quantizerOut(qz))
          /\ qz' = quantizerSent(qz)
          /\ RecvQuant(quantizerOut(qz))
          /\ UNCHANGED panic
  /\ UNCHANGED <<closed, sendCtx, amp, tok, mainPc, probe, source, rmsRead>>

\* getRlePipe goroutine: range over quants ends, close(lengths)
RleExit ==
  /\ Running /\ rle.pc = "recv" /\ closed["quants"]
  /\ closeChan("lengths")
  /\ rle' = IF closed["lengths"] THEN rle ELSE [rle EXCEPT !.pc = "done"]
  /\ UNCHANGED <<hist, sendCtx, amp, qz, tok, mainPc, probe, source, rmsRead>>

\* what the getRlePipe goroutine's send leaves behind on its side
RleSends ==
  /\ Log("lengths", rle.tally)
  /\ sendCtx' = [sendCtx EXCEPT !["lengths"] = Append(@, rle.currentState)]
  /\ rle' = rleSent(rle)

\* lengths <- tally, received by the getTokenPipe goroutine
RleToTok ==
  /\ Running /\ rle.pc = "send"
  /\ closed["lengths"] \/ tok.pc = "recv"
  /\ IF closed["lengths"]
     THEN SendOnClosed /\ UNCHANGED <<hist, sendCtx, rle, tok>>
     ELSE RleSends /\ RecvDuration(rle.tally)
  /\ UNCHANGED <<closed, amp, qz, mainPc, probe, source, rmsRead>>

\* getTokenPipe goroutine: range over durations ends, close(durations)
TokExit ==
  /\ Running /\ tok.pc = "recv" /\ closed["lengths"]
  /\ closeChan("lengths")
  /\ tok' = IF closed["lengths"] THEN tok ELSE [tok EXCEPT !.pc = "done"]
  /\ UNCHANGED <<hist, sendCtx, amp, qz, rle, mainPc, probe, source, rmsRead>>

\* what the getTokenPipe goroutine's send leaves behind on its side
TokSends ==
  /\ Log("tokens", tokOut(tok))
  /\ sendCtx' = [sendCtx EXCEPT !["tokens"] =
                   Append(@, [d |-> tok.group[tok.i + 1],
                              unit |-> tok.unitDuration,
                              silence |-> tok.silence])]
  /\ tok' = tokSent(tok)

\* main's range over output: it takes the token the getTokenPipe goroutine
\* sends, or finds output closed, leaves the loop and executes close(output)
MainRange ==
  /\ Running /\ mainPc = "range"
  /\ IF closed["tokens"]
     THEN /\ closeChan("tokens")
          /\ UNCHANGED <<hist, sendCtx, tok, mainPc>>
     ELSE /\ tok.pc = "send"
          /\ TokSends
          /\ UNCHANGED <<closed, panic, mainPc>>
  /\ UNCHANGED <<amp, qz, rle, probe, source, rmsRead>>

Next ==
  \/ SourceSend \/ SourceClose
  \/ AmplituderExit \/ AmpToQuant
  \/ QuantizerExit \/ QuantToRle
  \/ RleExit \/ RleToTok
  \/ TokExit \/ MainRange

\* the whole pipeline, fed by a source that sends chunks and then closes
Spec == Init /\ [][Next]_vars

\* the Go scheduler runs every goroutine that can take a step
FairSpec ==
  /\ Spec
  /\ WF_vars(AmplituderExit) /\ WF_vars(AmpToQuant)
  /\ WF_vars(QuantizerExit) /\ WF_vars(QuantToRle)
  /\ WF_vars(RleExit) /\ WF_vars(RleToTok)
  /\ WF_vars(TokExit) /\ WF_vars(MainRange)

\* ------------------------------------------- one stage driven on its own
\* quantizer(amplitudes, quants) with a caller that sends any amplitudes,
\* closes the channel and receives the quants
FeedAmplitude ==
  \E a \in Amps :
    /\ Running /\ ~closed["amplitudes"] /\ Len(hist["amplitudes"]) < MaxAmps
    /\ qz.pc = "recv"
    /\ Log("amplitudes", a)
    /\ RecvAmplitude(a)
    /\ UNCHANGED <<closed, sendCtx, amp, rle, tok, mainPc, probe, source, rmsRead>>

CloseAmplitudes ==
  /\ Running /\ ~closed["amplitudes"]
  /\ closeChan("amplitudes")
  /\ UNCHANGED <<hist, sendCtx, amp, qz, rle, tok, mainPc, probe, source, rmsRead>>

DrainQuant ==
  /\ Running /\ qz.pc = "send" /\ ~closed["quants"]
  /\ Log("quants", quantizerOut(qz))
  /\ qz' = quantizerSent(qz)
  /\ UNCHANGED <<closed, sendCtx, panic, amp, rle, tok, mainPc, probe, source, rmsRead>>

NextQuant == FeedAmplitude \/ CloseAmplitudes \/ QuantizerExit \/ DrainQuant

SpecQuant == Init /\ [][NextQuant]_vars

\* getRlePipe(quants) with a caller that sends any booleans, closes quants
\* and receives the lengths
FeedQuant ==
  \E b \in BOOLEAN :
    /\ Running /\ ~closed["quants"] /\ Len(hist["quants"]) < MaxQuants
    /\ rle.pc = "recv"
    /\ Log("quants", b)
    /\ RecvQuant(b)
    /\ UNCHANGED <<closed, sendCtx, panic, amp, qz, tok, mainPc, probe, source, rmsRead>>

CloseQuants ==
  /\ Running /\ ~closed["quants"]
  /\ closeChan("quants")
  /\ UNCHANGED <<hist, sendCtx, amp, qz, rle, tok, mainPc, probe, source, rmsRead>>

DrainLength ==
  /\ Running /\ rle.pc = "send" /\ ~closed["lengths"]
  /\ RleSends
  /\ UNCHANGED <<closed, panic, amp, qz, tok, mainPc, probe, source, rmsRead>>

NextRle == FeedQuant \/ CloseQuants \/ RleExit \/ DrainLength

SpecRle == Init /\ [][NextRle]_vars

\* getTokenPipe(durations) with a caller that sends any durations and closes
\* the channel, and main's loop receiving the tokens
FeedDuration ==
  \E d \in Durations :
    /\ Running /\ ~closed["lengths"] /\ Len(hist["lengths"]) < MaxDurations
    /\ tok.pc = "recv"
    /\ Log("lengths", d)
    /\ RecvDuration(d)
    /\ UNCHANGED <<closed, sendCtx, amp, qz, rle, mainPc, probe, source, rmsRead>>

CloseDurations ==
  /\ Running /\ ~closed["lengths"]
  /\ closeChan("lengths")
  /\ UNCHANGED <<hist, sendCtx, amp, qz, rle, tok, mainPc, probe, source, rmsRead>>

NextTok == FeedDuration \/ CloseDurations \/ TokExit \/ MainRange

SpecTok == Init /\ [][NextTok]_vars

\* getTokenPipe(getRlePipe(quants)) fed the pattern 1 tone event, 3 silence
\* events, over and over
PatternAt(n) == n % 4 = 0

FeedPattern ==
  /\ Running /\ Len(hist["quants"]) < MaxPattern
  /\ rle.pc = "recv"
  /\ Log("quants", PatternAt(Len(hist["quants"])))
  /\ RecvQuant(PatternAt(Len(hist["quants"])))
  /\ UNCHANGED <<closed, sendCtx, panic, amp, qz, tok, mainPc, probe, source, rmsRead>>

NextPattern == FeedPattern \/ RleToTok \/ MainRange

SpecPattern == Init /\ [][NextPattern]_vars

\* clamp applied to the ratios of a list in turn, the way the loop of
\* getTokenPipe applies it: silence flips after every ratio
InitClamp ==
  /\ InitPipeline
  /\ \E in \in ClampInputs, sil \in BOOLEAN :
       probe = [in |-> in, pos |-> 0, silence |-> sil, out |-> <<>>]

ClampStep ==
  /\ probe.pos < Len(probe.in)
  /\ probe' = [probe EXCEPT
       !.pos = @ + 1,
       !.silence = ~@,
       !.out = Append(@, [x |-> probe.in[probe.pos + 1],
                          silence |-> probe.silence,
                          tok |-> clamp(probe.in[probe.pos + 1], probe.silence)])]
  /\ UNCHANGED <<closed, hist, sendCtx, panic, amp, qz, rle, tok, mainPc, source, rmsRead>>

SpecClamp == InitClamp /\ [][ClampStep]_vars

\* amplituder(chunks, amplitudes) with a caller that sends any non-empty
\* chunks, closes chunks and receives the amplitudes
FeedChunk ==
  \E chunk \in SampleChunks :
    /\ Running /\ ~closed["chunks"] /\ Len(hist["chunks"]) < MaxRmsChunks
    /\ amp.pc = "recv"
    /\ Log("chunks", chunk)
    /\ RecvChunk(chunk)
    /\ UNCHANGED <<closed, sendCtx, qz, rle, tok, mainPc, probe, source, rmsRead>>

DrainAmplitude ==
  /\ Running /\ amp.pc = "send" /\ ~closed["amplitudes"]
  /\ Log("amplitudes", amp.out)
  /\ amp' = [amp EXCEPT !.pc = "recv"]
  /\ UNCHANGED <<closed, sendCtx, panic, qz, rle, tok, mainPc, probe, source, rmsRead>>

NextAmp == FeedChunk \/ SourceClose \/ AmplituderExit \/ DrainAmplitude

SpecAmp == Init /\ [][NextAmp]_vars

\* the whole pipeline with a source that may also hand over an empty chunk
SourceSendAny ==
  \E chunk \in Chunks \cup {<<>>} :
    /\ Running /\ ~closed["chunks"] /\ Len(hist["chunks"]) < MaxChunks
    /\ amp.pc = "recv"
    /\ Log("chunks", chunk)
    /\ RecvChunk(chunk)
    /\ UNCHANGED <<closed, sendCtx, qz, rle, tok, mainPc, probe, source, rmsRead>>

NextAnyChunk ==
  \/ SourceSendAny \/ SourceClose
  \/ AmplituderExit \/ AmpToQuant
  \/ QuantizerExit \/ QuantToRle
  \/ RleExit \/ RleToTok
  \/ TokExit \/ MainRange

SpecAnyChunk == Init /\ [][NextAnyChunk]_vars

\* the whole pipeline while main does not receive from output: the source
\* keeps sending, the stream is not closed
StalledSourceSend ==
  \E chunk \in StallChunks :
    /\ Running /\ ~closed["chunks"] /\ Len(hist["chunks"]) < MaxStallChunks
    /\ amp.pc = "recv"
    /\ Log("chunks", chunk)
    /\ RecvChunk(chunk)
    /\ UNCHANGED <<closed, sendCtx, qz, rle, tok, mainPc, probe, source, rmsRead>>

NextStalled == StalledSourceSend \/ AmpToQuant \/ QuantToRle \/ RleToTok

SpecStalled == Init /\ [][NextStalled]_vars

\* main's reading goroutine and amplituder on the one samplechunk slice:
\* stream.Read() fills the slice, "chunks <- samplechunk" hands over a
\* reference to it, rms reads it sample by sample
StreamRead ==
  \E chunk \in Chunks :
    /\ Running /\ source.pc = "read" /\ Len(hist["chunks"]) < MaxShareChunks
    /\ source' = [pc |-> "send", samplechunk |-> chunk]
    /\ UNCHANGED <<closed, hist, sendCtx, panic, amp, qz, rle, tok, mainPc, probe, rmsRead>>

ShareSend ==
  /\ Running /\ source.pc = "send" /\ amp.pc = "recv"
  /\ Log("chunks", source.samplechunk)
  /\ source' = [source EXCEPT !.pc = "read"]
  /\ amp' = [amp EXCEPT !.pc = "rms"]
  /\ rmsRead' = <<>>
  /\ UNCHANGED <<closed, sendCtx, panic, qz, rle, tok, mainPc, probe>>

RmsReadSample ==
  /\ Running /\ amp.pc = "rms"
  /\ rmsRead' = Append(rmsRead, source.samplechunk[Len(rmsRead) + 1])
  /\ IF Len(rmsRead') = Len(source.samplechunk)
     THEN \E a \in rms(rmsRead') : amp' = [pc |-> "send", out |-> a]
     ELSE UNCHANGED amp
  /\ UNCHANGED <<closed, hist, sendCtx, panic, qz, rle, tok, mainPc, probe, source>>

NextShare == StreamRead \/ ShareSend \/ RmsReadSample \/ DrainAmplitude

SpecShare == Init /\ [][NextShare]_vars

\* getTokenPipe(getRlePipe(quants)) with a caller that sends any booleans
\* and closes quants, and main's loop receiving the tokens
NextRleTok ==
  \/ FeedQuant \/ CloseQuants
  \/ RleExit \/ RleToTok
  \/ TokExit \/ MainRange

SpecRleTok == Init /\ [][NextRleTok]_vars

\* ================================================================ claims
RECURSIVE Repeat(_, _)
Repeat(b, n) == IF n <= 0 THEN <<>> ELSE <<b>> \o Repeat(b, n - 1)

\* the boolean sequence the runs (states[k], lengths[k]) stand for
RECURSIVE Expand(_, _)
Expand(lengths, states) ==
  IF lengths = <<>> THEN <<>>
  ELSE Repeat(Head(states), Head(lengths)) \o Expand(Tail(lengths), Tail(states))

RECURSIVE Total(_)
Total(s) == IF s = <<>> THEN 0 ELSE Head(s) + Total(Tail(s))

RECURSIVE Without(_, _)
Without(s, v) ==
  IF s = <<>> THEN <<>>
  ELSE IF Head(s) = v THEN Without(Tail(s), v)
  ELSE <<Head(s)>> \o Without(Tail(s), v)

MinOf(s) == CHOOSE m \in {s[k] : k \in 1..Len(s)} : \A k \in 1..Len(s) : m <= s[k]
MaxOf(s) == CHOOSE m \in {s[k] : k \in 1..Len(s)} : \A k \in 1..Len(s) : m >= s[k]

\* x <= k for a ratio x = <<numerator, denominator>>
Le(x, k) == x[1] <= k * x[2]

\* the band table: ratio range -> tone meaning, silence meaning
Band(x, sil) ==
  CASE Le(x, 2) -> IF sil THEN noOp ELSE dit
    [] ~Le(x, 2) /\ Le(x, 5) -> IF sil THEN endLetter ELSE dah
    [] ~Le(x, 5) /\ Le(x, 8) -> IF sil THEN endWord ELSE cwError
    [] ~Le(x, 8) -> IF sil THEN pause ELSE cwError

\* C1: within every group of GroupSize durations received by getTokenPipe,
\* the i-th token emitted for the group is the classification (quotient by
\* the group's unit, clamped with the parity of i) of the i-th duration
\* received for the group, in arrival order.
C1_TokensFollowArrivalOrder ==
  \A k \in 1..Len(hist["tokens"]) :
    LET first == ((k - 1) \div GroupSize) * GroupSize
        i == (k - 1) % GroupSize
        arrived == SubSeq(hist["lengths"], first + 1, first + GroupSize)
        unit == calculateUnitDuration(arrived)
    IN hist["tokens"][k] = clamp(Float32(GoDiv(arrived[i + 1], unit)), i % 2 = 1)

\* C2: once the source has closed chunks, under fair scheduling every stage
\* finishes, the token channel is closed and main's range loop ends.
C2_EndOfStreamPropagates ==
  closed["chunks"] ~>
    (/\ amp.pc = "done" /\ qz.pc = "done" /\ rle.pc = "done" /\ tok.pc = "done"
     /\ closed["tokens"] /\ mainPc = "done")

\* C3: with non-empty chunks and a source that closes chunks, the pipeline
\* never reaches a panic: no double close, no send on a closed channel, no
\* index out of range, no division by zero.
C3_NoFatalState == panic = "none"

\* C4: when the input of getRlePipe has been closed and the stage has
\* finished, the emitted runs expand to exactly the booleans received, and
\* the durations sum to their number.
C4_RunLengthLossless ==
  rle.pc = "done" =>
    /\ Expand(hist["lengths"], sendCtx["lengths"]) = hist["quants"]
    /\ Total(hist["lengths"]) = Len(hist["quants"])

\* C5: any two runs sent one after the other on lengths carry different
\* states (currentState at the moment of the send).
C5_RunsAlternate ==
  \A k \in 1..(Len(sendCtx["lengths"]) - 1) :
    sendCtx["lengths"][k] # sendCtx["lengths"][k + 1]

\* three runs have been sent on lengths
C5_ThreeRunsSent ==
  /\ Len(sendCtx["lengths"]) >= 3
  /\ Len(hist["lengths"]) = Len(sendCtx["lengths"])

\* C6: every duration sent on lengths is at least 1.
C6_DurationsPositive ==
  \A k \in 1..Len(hist["lengths"]) : hist["lengths"][k] >= 1

\* C7: every token is clamp applied to the exact ratio of the duration it
\* classifies to the group's unit (unit >= 1), not to the integer quotient.
C7_ExactRatioClassified ==
  \A k \in 1..Len(hist["tokens"]) :
    LET c == sendCtx["tokens"][k]
    IN c.unit >= 1 => hist["tokens"][k] = clamp(<<c.d, c.unit>>, c.silence)

\* C8: for every full window, each boolean the quantizer emits is
\* (amplitude >= min + (max - min) / 2) with min and max the smallest and
\* largest amplitude of that window.
C8_WindowDiscriminator ==
  \A k \in 1..Len(hist["quants"]) :
    LET first == ((k - 1) \div WindowSize) * WindowSize
        window == SubSeq(hist["amplitudes"], first + 1, first + WindowSize)
        lo == MinOf(window)
        hi == MaxOf(window)
    IN hist["quants"][k] = (hist["amplitudes"][k] >= lo + GoDiv(hi - lo, 2))

\* C9: clamp follows the band table with inclusive upper bounds, for tone
\* and for silence; the ratios 1,1,3,3,7,1,3,3 starting at a tone give
\* Dit, NoOp, Dah, EndLetter, Error, NoOp, Dah, EndLetter.
C9_ClampFollowsBandTable ==
  /\ \A k \in 1..Len(probe.out) :
       probe.out[k].tok = Band(probe.out[k].x, probe.out[k].silence)
  /\ (probe.in = ExampleRatios /\ probe.pos = 8 /\ probe.out[1].silence = FALSE)
       => [k \in 1..8 |-> probe.out[k].tok]
            = <<dit, noOp, dah, endLetter, cwError, noOp, dah, endLetter>>

\* the example list has been classified, starting at a tone
C9_ExampleClassified ==
  /\ probe.in = ExampleRatios /\ probe.pos = 8
  /\ probe.out[1].silence = FALSE

\* C10: fed the repeated pattern 1 tone event, 3 silence events, the tokens
\* without the NoOps are Dit, EndLetter, Dit, EndLetter, ...: no Dah,
\* EndWord, Pause or Error is emitted.
C10_DitEndLetterOnly ==
  LET shown == Without(hist["tokens"], noOp)
  IN \A j \in 1..Len(shown) : shown[j] = IF j % 2 = 1 THEN dit ELSE endLetter

\* the chunk amplituder received last
LastChunk == hist["chunks"][Len(hist["chunks"])]
\* every sample is small: sums and squares stay far from the integer limits
InRange(chunk) == \A k \in 1..Len(chunk) : chunk[k] # BigSample
Identical(chunk) == \A k \in 1..Len(chunk) : chunk[k] = chunk[1]

\* C11 (as claimed): for a non-empty chunk without overflow, rms returns 0
\* if and only if all samples of the chunk are identical.
C11_ZeroIffIdentical ==
  (amp.pc = "send" /\ InRange(LastChunk)) =>
    ((amp.out = 0) <=> Identical(LastChunk))

\* C11 (amended): for a non-empty chunk without overflow, rms returns 0 if
\* all samples of the chunk are identical.
C11_IdenticalGivesZero ==
  (amp.pc = "send" /\ InRange(LastChunk) /\ Identical(LastChunk)) => amp.out = 0

\* rms has been applied to a chunk of several identical non-zero samples
C11_IdenticalChunkMeasured ==
  /\ amp.pc = "send" /\ Len(LastChunk) >= 2 /\ LastChunk[1] = 2
  /\ Identical(LastChunk) /\ amp.out = 0

\* C12: for every non-empty chunk, with sum and sum of squares wrapping
\* like the machine integers, the value under the square root is never
\* negative and the amplitude is >= 0.
C12_RadicandNonNegative ==
  /\ \A k \in 1..Len(hist["chunks"]) : rmsRadicand(hist["chunks"][k]) >= 0
  /\ amp.pc = "send" => amp.out >= 0

\* the group getTokenPipe completed last, in arrival order
LastGroup ==
  SubSeq(hist["lengths"], Len(hist["lengths"]) - GroupSize + 1, Len(hist["lengths"]))

\* C13: calculateUnitDuration returns the element at index floor(len/4) of
\* the group sorted ascending (at most floor(len/4) elements are smaller, more
\* than floor(len/4) are not larger), and scaling the group by a positive
\* integer scales the result by the same factor.
C13_UnitIsQuartileAndScales ==
  tok.pc = "send" =>
    LET g == LastGroup
        idx == Len(g) \div 4
        u == tok.unitDuration
    IN /\ \E k \in 1..Len(g) : g[k] = u
       /\ Cardinality({k \in 1..Len(g) : g[k] < u}) <= idx
       /\ Cardinality({k \in 1..Len(g) : g[k] <= u}) > idx
       /\ \A c \in 1..MaxScale :
            calculateUnitDuration([k \in 1..Len(g) |-> c * g[k]]) = c * u

\* the unit of an unsorted group has been computed; it is not the smallest
\* duration and not the one stored at index floor(len/4)
C13_UnsortedGroupMeasured ==
  /\ tok.pc = "send"
  /\ tok.unitDuration > MinOf(LastGroup)
  /\ LastGroup[(GroupSize \div 4) + 1] # tok.unitDuration

\* C14: when amplituder receives a chunk of length 0, rms fails with a
\* division by zero: the process panics at that chunk, no amplitude is
\* produced or sent for it, and (the process being over) no token follows.
C14_EmptyChunkIsFatal ==
  \A k \in 1..Len(hist["chunks"]) :
    Len(hist["chunks"][k]) = 0 =>
      /\ panic = "integer divide by zero"
      /\ k = Len(hist["chunks"])
      /\ amp.pc = "recv"
      /\ Len(hist["amplitudes"]) < k
      /\ ~ENABLED NextAnyChunk

\* an empty chunk has arrived after a non-empty one
C14_EmptyChunkReceived ==
  /\ Len(hist["chunks"]) >= 2
  /\ Len(hist["chunks"][Len(hist["chunks"])]) = 0
  /\ Len(hist["amplitudes"]) >= 1

\* what the stages can hold between them: a chunk in amplituder, a window
\* in the quantizer, a quant in getRlePipe, a group in getTokenPipe
StallBound == 1 + WindowSize + 1 + GroupSize

\* the threshold the quantizer used for the window that amplitude k is in
MiddleOf(k) ==
  LET first == ((k - 1) \div WindowSize) * WindowSize
      window == <<0>> \o SubSeq(hist["amplitudes"], first + 1, first + WindowSize)
  IN GoDiv(MaxOf(window) - MinOf(window), 2)

IsPrefix(s, t) == Len(s) <= Len(t) /\ s = SubSeq(t, 1, Len(s))

\* C15 (as claimed): when main stops receiving, the number of chunks the
\* source can still hand over is bounded by what the stages buffer.
C15_StalledSourceBounded == Len(hist["chunks"]) <= StallBound

\* C15 (amended): while main does not receive, no value is lost or
\* reordered: amplitude k is the rms of chunk k, quant k is amplitude k
\* against its window's threshold, the runs sent expand to a prefix of the
\* quants; each stage holds what it received and has not yet passed on (one
\* chunk, at most one window, the run being counted, at most one group) and
\* getTokenPipe waits at the first send of its first group.
C15_NoLossUnderBackpressure ==
  /\ hist["tokens"] = <<>>
  /\ Len(hist["chunks"])
       = Len(hist["amplitudes"]) + (IF amp.pc = "send" THEN 1 ELSE 0)
  /\ \A k \in 1..Len(hist["amplitudes"]) :
       hist["amplitudes"][k] \in rms(hist["chunks"][k])
  /\ Len(hist["amplitudes"])
       = Len(hist["quants"])
           + (IF qz.pc = "send" THEN WindowSize - qz.i ELSE qz.seen)
  /\ \A k \in 1..Len(hist["quants"]) :
       hist["quants"][k] = (hist["amplitudes"][k] >= MiddleOf(k))
  /\ Len(hist["quants"])
       = Total(hist["lengths"]) + rle.tally + (IF rle.pc = "send" THEN 1 ELSE 0)
  /\ IsPrefix(Expand(hist["lengths"], sendCtx["lengths"]), hist["quants"])
  /\ Len(hist["lengths"]) = (IF tok.pc = "send" THEN GroupSize ELSE tok.seen)
  /\ tok.pc = "send" => tok.i = 0

\* every stage waits at its send and the source cannot hand over a chunk
C15_AllBlockedOnSend ==
  /\ amp.pc = "send" /\ qz.pc = "send" /\ rle.pc = "send" /\ tok.pc = "send"
  /\ Len(hist["chunks"]) < MaxStallChunks

\* C16: while amplituder is reading a chunk in rms, the storage of the
\* chunk still holds what the source handed over: the source has not
\* written to it.
C16_StorageStableWhileRead ==
  amp.pc = "rms" => source.samplechunk = LastChunk

\* the last n amplitudes the quantizer received, after the 0 that max and
\* min start from
LastAmps(n) ==
  <<0>> \o SubSeq(hist["amplitudes"], Len(hist["amplitudes"]) - n + 1,
                  Len(hist["amplitudes"]))

\* C17: the quantizer has sent at most WindowSize events per complete
\* window received; max and min are those of the current window's
\* amplitudes alone (starting from 0), while it fills and while it is
\* sent, and each event is its amplitude against that window's threshold;
\* when the quantizer has closed quants, a trailing partial window has
\* produced nothing.
C17_OnlyCompleteWindows ==
  /\ Len(hist["quants"]) <= WindowSize * (Len(hist["amplitudes"]) \div WindowSize)
  /\ qz.seen = (IF qz.pc = "send" THEN WindowSize
                ELSE Len(hist["amplitudes"]) % WindowSize)
  /\ qz.max = MaxOf(LastAmps(qz.seen))
  /\ qz.min = MinOf(LastAmps(qz.seen))
  /\ qz.pc = "send" => qz.middle = GoDiv(qz.max - qz.min, 2)
  /\ \A k \in 1..Len(hist["quants"]) :
       hist["quants"][k] = (hist["amplitudes"][k] >= MiddleOf(k))
  /\ qz.pc = "done" =>
       /\ closed["quants"]
       /\ Len(hist["quants"])
            = WindowSize * (Len(hist["amplitudes"]) \div WindowSize)

\* a full window was sent, then a partial window was left at end-of-stream
C17_PartialWindowDropped ==
  /\ qz.pc = "done"
  /\ Len(hist["quants"]) = WindowSize
  /\ Len(hist["amplitudes"]) > WindowSize
  /\ hist["amplitudes"][1] > 0

\* C18: over the whole token stream, counted across groups from 0, the
\* token at an even position is produced by the tone rule and is Dit, Dah
\* or Error, the token at an odd position by the silence rule and is NoOp,
\* EndLetter, EndWord, Pause or Error; an Error token advances the
\* alternation like any other.
C18_ToneSilenceAlternate ==
  \A k \in 1..Len(hist["tokens"]) :
    LET c == sendCtx["tokens"][k]
    IN /\ c.silence = ((k - 1) % 2 = 1)
       /\ c.unit >= 1 =>
            hist["tokens"][k] = clamp(Float32(GoDiv(c.d, c.unit)), c.silence)
       /\ IF (k - 1) % 2 = 0
          THEN hist["tokens"][k] \in {dit, dah, cwError}
          ELSE hist["tokens"][k] \in {noOp, endLetter, endWord, pause, cwError}

\* a second group is being classified and an Error token was followed by a
\* silence token
C18_ErrorThenSilence ==
  /\ Len(hist["tokens"]) > GroupSize + 1
  /\ \E k \in 1..(Len(hist["tokens"]) - 1) :
       /\ hist["tokens"][k] = cwError
       /\ sendCtx["tokens"][k + 1].silence

\* C19: the rule used for the token at position k is the tone rule exactly
\* when the k-th run getRlePipe sent is a run of true events.
C19_ParityMatchesRuns ==
  \A k \in 1..Len(hist["tokens"]) :
    sendCtx["tokens"][k].silence = ~sendCtx["lengths"][k]

\* C20: with durations from getRlePipe, the unit of every group is >= 1 and
\* group[i] / unitDuration never divides by zero, also when the first
\* duration sent is 0.
C20_UnitAtLeastOne ==
  /\ panic # "integer divide by zero"
  /\ tok.pc = "send" => tok.unitDuration >= 1
  /\ \A k \in 1..Len(hist["tokens"]) : sendCtx["tokens"][k].unit >= 1

\* the first duration sent was 0 and its group has been classified
C20_ZeroDurationClassified ==
  /\ Len(hist["tokens"]) >= 1
  /\ hist["lengths"][1] = 0
  /\ sendCtx["tokens"][1].d = 0

====
